---- MODULE Spec2Model ----
(***************************************************************************)
(* Model of Trainer (src/lib/tracking/deepsort/trainer.py): the sweep      *)
(* loop of train(), load_model and save_checkpoint.                        *)
(*                                                                         *)
(* Accuracies are naturals 0..MaxAcc (a count of correct predictions);     *)
(* learning rates are drawn from Lrs; model parameters are abstracted to   *)
(* a number `weights` that every optimizer step on the model changes.      *)
(* The Python type of best_acc (float 0. at construction, int 0 after the  *)
(* reset at the end of a run) is kept in best_acc_ty because the           *)
(* checkpoint file name is built from str(best_acc).                       *)
(*                                                                         *)
(* Library behaviour relied on:                                            *)
(*  - torch.save pickles the bound method net.state_dict together with     *)
(*    its module; Module.load_state_dict raises on anything that is not a  *)
(*    mapping of parameters;                                               *)
(*  - ReduceLROnPlateau.step requires a metrics argument, so the call      *)
(*    scheduler.step() raises TypeError;                                   *)
(*  - reading an unassigned local variable raises UnboundLocalError, and   *)
(*    a local assigned in one iteration of `for run in self.runs` is still *)
(*    bound in the next.                                                   *)
(***************************************************************************)
EXTENDS Integers, Sequences, FiniteSets, TLC

MaxRuns == 2
MaxEpoch == 2
MaxInterval == 2
MaxAcc == 2

\* learning rate of the sweep entries, and those a checkpoint may hold
Lrs == {1}
CheckpointLrs == {1, 2}
Optims == {"SGD", "Adam", "RMSprop"}
ValidOptims == {"SGD", "Adam"}

VARIABLES
    runs,           \* self.runs: the sweep
    cfg_epoch,      \* cfg.train.epoch
    save_interval,  \* cfg.train.save_interval
    pretrained,     \* cfg.train.pretrained
    fs,             \* checkpoint files on disk: set of [path, ckpt]
    start_epoch,    \* self.start_epoch
    lr,             \* self.lr
    best_acc,       \* self.best_acc
    best_acc_ty,    \* Python type of self.best_acc
    pc,             \* position in train()
    run_idx,        \* index of `run` in self.runs
    net,            \* local `net`
    optimizer,      \* local `optimizer`
    scheduler,      \* local `scheduler`
    epoch,          \* local `epoch`
    checkpoint_file,\* local `checkpoint_file`
    val_accuracy,   \* runner.val_accuracy
    err,            \* exception that ended train(), "" if none
    get_model_calls,\* history: number of get_model calls
    loaded,         \* history: per run, the checkpoint load_model restored
    acc_at_loop,    \* history: per run, best_acc when the epoch loop began
    forward,        \* history: runs that executed a forward pass
    steps,          \* history: optimizer steps [run, opt_net]
    writes,         \* history: save_checkpoint calls
    result_saved,   \* history: number of runner.save calls
    events          \* history: runner calls in order [kind, run, epoch]

vars == <<runs, cfg_epoch, save_interval, pretrained, fs, start_epoch, lr,
          best_acc, best_acc_ty, pc, run_idx, net, optimizer, scheduler,
          epoch, checkpoint_file, val_accuracy, err, get_model_calls,
          loaded, acc_at_loop, forward, steps, writes, result_saved,
          events>>

----------------------------------------------------------------------------
(* Values *)

RunConfigs == [lr : Lrs, optim : Optims, reduce_lr : BOOLEAN]

Sweeps == UNION {[1..n -> RunConfigs] : n \in 1..MaxRuns}

NoNet == [id |-> 0, weights |-> 0]

Unbound == [bound |-> FALSE, kind |-> "", lr |-> 0, net |-> 0]

NoCheckpoint ==
    [net_dict |-> [kind |-> "none", weights |-> 0],
     acc |-> 0, acc_ty |-> "none", epoch |-> 0, lr |-> 0]

\* str(x) of a number: "0.0" for the float 0., "0" for the int 0
FormatNum(x, ty) == <<ty, x>>

\* float(s) of the text produced by FormatNum
ParseNum(s) == s[2]

\* os.path.join(save_root, 'checkpoints', f'epoch_{epoch}-{best_acc}.pth')
CheckpointFile(e, acc, ty) ==
    [dir |-> "checkpoints", epoch |-> e, acc |-> FormatNum(acc, ty)]

\* pretrained = '' (the default of load_model)
EmptyPath == [dir |-> "", epoch |-> 0, acc |-> FormatNum(0, "none")]

\* a checkpoint file outside save_root, written by an earlier training job
ExtPath == [dir |-> "pretrained", epoch |-> 0, acc |-> FormatNum(0, "none")]

\* a well-formed checkpoint: net_dict is a parameter mapping; saved at any
\* epoch up to the configured total, with accuracy 0 or 1
ExtCheckpoints ==
    {[net_dict |-> [kind |-> "dict", weights |-> 9],
      acc |-> a, acc_ty |-> "float", epoch |-> e, lr |-> l] :
        a \in {0, 1}, e \in 0..MaxEpoch, l \in CheckpointLrs}

\* the configured pretrained path together with the disk it is read from
Environments ==
    {[pre |-> EmptyPath, fs |-> {}]}
    \cup {[pre |-> ExtPath, fs |-> {[path |-> ExtPath, ckpt |-> c]}] :
            c \in ExtCheckpoints}
    \cup {[pre |-> CheckpointFile(0, 0, "float"), fs |-> {}]}

\* os.path.isfile(p)
IsFile(p) == \E f \in fs : f.path = p

\* torch.load(p)
TorchLoad(p) == (CHOOSE f \in fs : f.path = p).ckpt

\* torch.save(c, p)
TorchSave(c, p) == {f \in fs : f.path # p} \cup {[path |-> p, ckpt |-> c]}

----------------------------------------------------------------------------
(* Pure pieces of the code *)

\* get_model(reid_net, reid=False, num_classes): a freshly built network
get_model(i) == [id |-> i, weights |-> 0]

\* variant: the stored epoch is the one-based epoch number
MakeCheckpoint_OneBased(n, acc, ty, e, l) ==
    [net_dict |-> [kind |-> "method", weights |-> n.weights],
     acc |-> acc, acc_ty |-> ty, epoch |-> e + 1, lr |-> l]

\* the dictionary built by save_checkpoint: 'net_dict' holds the bound
\* method net.state_dict, not the mapping net.state_dict() returns
MakeCheckpoint(n, acc, ty, e, l) ==
    [net_dict |-> [kind |-> "method", weights |-> n.weights],
     acc |-> acc, acc_ty |-> ty, epoch |-> e, lr |-> l]

\* net.load_state_dict(d) accepts a parameter mapping only
LoadStateDictOk(d) == d.kind = "dict"

\* variant: torch.load is attempted without the os.path.isfile guard
load_model_NoGuard(i, pre, self) ==
    IF IsFile(pre) /\ LoadStateDictOk(TorchLoad(pre).net_dict)
    THEN LET checkpoint == TorchLoad(pre) IN
         [ok |-> TRUE,
          net |-> [id |-> i, weights |-> checkpoint.net_dict.weights],
          ckpt |-> checkpoint,
          start_epoch |-> checkpoint.epoch,
          best_acc |-> checkpoint.acc,
          best_acc_ty |-> checkpoint.acc_ty,
          lr |-> checkpoint.lr]
    ELSE [ok |-> FALSE, net |-> get_model(i), ckpt |-> NoCheckpoint,
          start_epoch |-> self.start_epoch, best_acc |-> self.best_acc,
          best_acc_ty |-> self.best_acc_ty, lr |-> self.lr]

\* variant: the checkpoint's accuracy is not restored
load_model_NoAcc(i, pre, self) ==
    IF IsFile(pre) /\ LoadStateDictOk(TorchLoad(pre).net_dict)
    THEN LET checkpoint == TorchLoad(pre) IN
         [ok |-> TRUE,
          net |-> [id |-> i, weights |-> checkpoint.net_dict.weights],
          ckpt |-> checkpoint,
          start_epoch |-> checkpoint.epoch,
          best_acc |-> self.best_acc,
          best_acc_ty |-> self.best_acc_ty,
          lr |-> checkpoint.lr]
    ELSE [ok |-> ~IsFile(pre), net |-> get_model(i), ckpt |-> NoCheckpoint,
          start_epoch |-> self.start_epoch, best_acc |-> self.best_acc,
          best_acc_ty |-> self.best_acc_ty, lr |-> self.lr]

\* load_model(reid_net, pretrained) on the fields given in `self`;
\* ok = FALSE when it raises, which happens before any field is assigned
load_model(i, pre, self) ==
    IF ~IsFile(pre)
    THEN [ok |-> TRUE, net |-> get_model(i), ckpt |-> NoCheckpoint,
          start_epoch |-> self.start_epoch, best_acc |-> self.best_acc,
          best_acc_ty |-> self.best_acc_ty, lr |-> self.lr]
    ELSE LET checkpoint == TorchLoad(pre) IN
         IF LoadStateDictOk(checkpoint.net_dict)
         THEN [ok |-> TRUE,
               net |-> [id |-> i, weights |-> checkpoint.net_dict.weights],
               ckpt |-> checkpoint,
               start_epoch |-> checkpoint.epoch,
               best_acc |-> checkpoint.acc,
               best_acc_ty |-> checkpoint.acc_ty,
               lr |-> checkpoint.lr]
         ELSE [ok |-> FALSE, net |-> get_model(i), ckpt |-> NoCheckpoint,
               start_epoch |-> self.start_epoch, best_acc |-> self.best_acc,
               best_acc_ty |-> self.best_acc_ty, lr |-> self.lr]

\* variant: the optimizer is built with run.lr instead of self.lr
MakeOptimizer_RunLr(run, n, l, old) ==
    IF run.optim \in ValidOptims
    THEN [bound |-> TRUE, kind |-> run.optim, lr |-> run.lr, net |-> n.id]
    ELSE old

\* the optimizer bound to local `optimizer` after the if/elif on run.optim;
\* with no matching branch the local keeps what it held
MakeOptimizer(run, n, l, old) ==
    IF run.optim \in ValidOptims
    THEN [bound |-> TRUE, kind |-> run.optim, lr |-> l, net |-> n.id]
    ELSE old

\* variant: (epoch+1) % save_interval == 0
IntervalDue_Paren(e, si) == (e + 1) % si = 0

\* epoch+1 % save_interval == 0, parsed as (epoch + (1 % save_interval)) == 0
IntervalDue(e, si) == e + (1 % si) = 0

\* variant: a resumed run continues after the epoch of its checkpoint
EpochRange_Skip(start, total) == (start + 1)..(total - 1)

\* range(self.start_epoch, self.cfg.train.epoch)
EpochRange(start, total) == start..(total - 1)

\* the first value a range yields
First(range) == CHOOSE e \in range : \A d \in range : e <= d

\* variant: the validation pass runs in every epoch
IsFinalEpoch_Every(e, total) == TRUE

\* epoch+1 == self.cfg.train.epoch
IsFinalEpoch(e, total) == e + 1 = total

\* variant: runner.val_accuracy >= self.best_acc
Improved_Geq(acc, best) == acc >= best

\* runner.val_accuracy > self.best_acc
Improved(acc, best) == acc > best

\* variant: the sweep stops after its first run
HasNextRun_Stop(i, rs) == FALSE

\* `for run in self.runs` has another entry after the i-th
HasNextRun(i, rs) == i < Len(rs)

\* variant: best_acc is carried over to the next run
ResetBestAcc_Keep == best_acc

\* self.best_acc = 0 after runner.end_run()
ResetBestAcc == 0

----------------------------------------------------------------------------
(* State machine *)

Init ==
    /\ runs \in Sweeps
    /\ cfg_epoch \in 1..MaxEpoch
    /\ save_interval \in 1..MaxInterval
    /\ \E env \in Environments : pretrained = env.pre /\ fs = env.fs
    /\ start_epoch = 0
    /\ lr = 0
    /\ best_acc = 0
    /\ best_acc_ty = "float"
    /\ pc = "run_start"
    /\ run_idx = 1
    /\ net = NoNet
    /\ optimizer = Unbound
    /\ scheduler = FALSE
    /\ epoch = 0
    /\ checkpoint_file = EmptyPath
    /\ val_accuracy = 0
    /\ err = ""
    /\ get_model_calls = 0
    /\ loaded = <<>>
    /\ acc_at_loop = <<>>
    /\ forward = {}
    /\ steps = {}
    /\ writes = <<>>
    /\ result_saved = 0
    /\ events = <<>>

cfgVars == <<runs, cfg_epoch, save_interval, pretrained>>

\* one call on the Runner: begin_run, begin_epoch ("epoch"), add_tb_data for
\* the validation pass ("val"), end_run, save
Event(kind, i, e) == [kind |-> kind, run |-> i, epoch |-> e]

\* raise: train() ends with exception e
Raise(e) == pc' = "failed" /\ err' = e

\* self.save_checkpoint(filename, net, epoch, lr), called for `cause`
save_checkpoint(filename, e, l, acc, ty, cause) ==
    LET checkpoint == MakeCheckpoint(net, acc, ty, e, l) IN
    /\ fs' = TorchSave(checkpoint, filename)
    /\ writes' = Append(writes,
                   [run |-> run_idx, epoch |-> e, file |-> filename,
                    ckpt |-> checkpoint, weights |-> net.weights,
                    cause |-> cause])

\* lines 108-111: self.lr = run.lr; net = self.load_model(...)
LoadModel ==
    /\ pc = "run_start"
    /\ LET run == runs[run_idx]
           r == load_model(run_idx, pretrained,
                   [start_epoch |-> start_epoch, best_acc |-> best_acc,
                    best_acc_ty |-> best_acc_ty, lr |-> run.lr])
       IN /\ get_model_calls' = get_model_calls + 1
          /\ lr' = r.lr
          /\ start_epoch' = r.start_epoch
          /\ best_acc' = r.best_acc
          /\ best_acc_ty' = r.best_acc_ty
          /\ loaded' = Append(loaded, r.ckpt)
          /\ IF r.ok
             THEN net' = r.net /\ pc' = "begin_run" /\ err' = err
             ELSE net' = net /\ Raise("TypeError")
    /\ UNCHANGED <<cfgVars, fs, run_idx, optimizer, scheduler, epoch,
                   checkpoint_file, val_accuracy, acc_at_loop, forward,
                   steps, writes, result_saved,
                   events>>

\* lines 113-129: begin_run, criterion, optimizer, scheduler
BeginRun ==
    /\ pc = "begin_run"
    /\ LET run == runs[run_idx]
           opt == MakeOptimizer(run, net, lr, optimizer)
       IN /\ optimizer' = opt
          /\ IF run.reduce_lr
             THEN IF opt.bound
                  THEN scheduler' = TRUE /\ pc' = "loop_init" /\ err' = err
                  ELSE scheduler' = scheduler /\ Raise("UnboundLocalError")
             ELSE scheduler' = scheduler /\ pc' = "loop_init" /\ err' = err
    /\ events' = Append(events, Event("begin_run", run_idx, 0))
    /\ UNCHANGED <<cfgVars, fs, start_epoch, lr, best_acc, best_acc_ty,
                   run_idx, net, epoch, checkpoint_file, val_accuracy,
                   get_model_calls, loaded, acc_at_loop, forward, steps,
                   writes, result_saved>>

\* line 132: for epoch in range(self.start_epoch, self.cfg.train.epoch)
EnterLoop ==
    /\ pc = "loop_init"
    /\ acc_at_loop' = Append(acc_at_loop, best_acc)
    /\ IF EpochRange(start_epoch, cfg_epoch) # {}
       THEN /\ epoch' = First(EpochRange(start_epoch, cfg_epoch))
            /\ pc' = "train_step"
       ELSE epoch' = epoch /\ pc' = "end_run"
    /\ UNCHANGED <<cfgVars, fs, start_epoch, lr, best_acc, best_acc_ty,
                   run_idx, net, optimizer, scheduler, checkpoint_file,
                   val_accuracy, err, get_model_calls, loaded, forward,
                   steps, writes, result_saved,
                   events>>

\* lines 134-171: one batch: forward, loss, zero_grad, backward, step
TrainStep ==
    /\ pc = "train_step"
    /\ forward' = forward \cup {run_idx}
    /\ IF optimizer.bound
       THEN /\ steps' = steps \cup {[run |-> run_idx, opt_net |-> optimizer.net]}
            /\ net' = IF optimizer.net = net.id
                      THEN [net EXCEPT !.weights = @ + 1]
                      ELSE net
            /\ pc' = "interval"
            /\ err' = err
       ELSE /\ steps' = steps
            /\ net' = net
            /\ Raise("UnboundLocalError")
    /\ events' = Append(events, Event("epoch", run_idx, epoch))
    /\ UNCHANGED <<cfgVars, fs, start_epoch, lr, best_acc, best_acc_ty,
                   run_idx, optimizer, scheduler, epoch, checkpoint_file,
                   val_accuracy, get_model_calls, loaded, acc_at_loop,
                   writes, result_saved>>

\* lines 172-179: checkpoint_file and the epoch-interval checkpoint
IntervalCheckpoint ==
    /\ pc = "interval"
    /\ LET file == CheckpointFile(epoch, best_acc, best_acc_ty) IN
       /\ checkpoint_file' = file
       /\ IF IntervalDue(epoch, save_interval)
          THEN save_checkpoint(file, epoch, optimizer.lr, best_acc,
                               best_acc_ty, "interval")
          ELSE UNCHANGED <<fs, writes>>
    /\ pc' = "validate"
    /\ UNCHANGED <<cfgVars, start_epoch, lr, best_acc, best_acc_ty, run_idx,
                   net, optimizer, scheduler, epoch, val_accuracy, err,
                   get_model_calls, loaded, acc_at_loop, forward, steps,
                   result_saved,
                   events>>

\* lines 181-205: validation on the final epoch, checkpoint on improvement
Validate ==
    /\ pc = "validate"
    /\ IF IsFinalEpoch(epoch, cfg_epoch)
       THEN \E acc \in 0..MaxAcc :
              /\ val_accuracy' = acc
              /\ IF Improved(acc, best_acc)
                 THEN /\ best_acc' = acc
                      /\ best_acc_ty' = "float"
                      /\ save_checkpoint(checkpoint_file, epoch, optimizer.lr,
                                         acc, "float", "improve")
                 ELSE UNCHANGED <<best_acc, best_acc_ty, fs, writes>>
       ELSE UNCHANGED <<val_accuracy, best_acc, best_acc_ty, fs, writes>>
    /\ pc' = "end_epoch"
    /\ events' = IF IsFinalEpoch(epoch, cfg_epoch)
                  THEN Append(events, Event("val", run_idx, epoch))
                  ELSE events
    /\ UNCHANGED <<cfgVars, start_epoch, lr, run_idx, net, optimizer,
                   scheduler, epoch, checkpoint_file, err, get_model_calls,
                   loaded, acc_at_loop, forward, steps, result_saved>>

\* lines 207-210 and the next iteration of the epoch loop
EndEpoch ==
    /\ pc = "end_epoch"
    /\ IF runs[run_idx].reduce_lr
       THEN epoch' = epoch /\ Raise("TypeError")
       ELSE /\ err' = err
            /\ IF epoch + 1 \in EpochRange(start_epoch, cfg_epoch)
               THEN epoch' = epoch + 1 /\ pc' = "train_step"
               ELSE epoch' = epoch /\ pc' = "end_run"
    /\ UNCHANGED <<cfgVars, fs, start_epoch, lr, best_acc, best_acc_ty,
                   run_idx, net, optimizer, scheduler, checkpoint_file,
                   val_accuracy, get_model_calls, loaded, acc_at_loop,
                   forward, steps, writes, result_saved,
                   events>>

\* lines 211-212 and the next iteration of `for run in self.runs`
EndRun ==
    /\ pc = "end_run"
    /\ best_acc' = ResetBestAcc
    /\ best_acc_ty' = "int"
    /\ IF HasNextRun(run_idx, runs)
       THEN run_idx' = run_idx + 1 /\ pc' = "run_start"
       ELSE run_idx' = run_idx /\ pc' = "save_result"
    /\ events' = Append(events, Event("end_run", run_idx, 0))
    /\ UNCHANGED <<cfgVars, fs, start_epoch, lr, net, optimizer, scheduler,
                   epoch, checkpoint_file, val_accuracy, err,
                   get_model_calls, loaded, acc_at_loop, forward, steps,
                   writes, result_saved>>

\* lines 213-214: runner.save(result_file)
SaveResult ==
    /\ pc = "save_result"
    /\ result_saved' = result_saved + 1
    /\ pc' = "done"
    /\ events' = Append(events, Event("save", 0, 0))
    /\ UNCHANGED <<cfgVars, fs, start_epoch, lr, best_acc, best_acc_ty,
                   run_idx, net, optimizer, scheduler, epoch,
                   checkpoint_file, val_accuracy, err, get_model_calls,
                   loaded, acc_at_loop, forward, steps, writes>>

Next ==
    \/ LoadModel
    \/ BeginRun
    \/ EnterLoop
    \/ TrainStep
    \/ IntervalCheckpoint
    \/ Validate
    \/ EndEpoch
    \/ EndRun
    \/ SaveResult

Spec == Init /\ [][Next]_vars

TypeOK ==
    /\ pc \in {"run_start", "begin_run", "loop_init", "train_step",
               "interval", "validate", "end_epoch", "end_run",
               "save_result", "done", "failed"}
    /\ run_idx \in 1..Len(runs)
    /\ best_acc \in 0..MaxAcc
    /\ (pc = "failed") = (err # "")

----------------------------------------------------------------------------
(* Properties *)

\* the checkpoint load_model restored for run i, NoCheckpoint if none
Restored(i) == loaded[i]
WasLoaded(i) == loaded[i] # NoCheckpoint

\* positions of a run from the start of its epoch loop up to runner.end_run()
InEpochLoop == pc \in {"loop_init", "train_step", "interval", "validate",
                       "end_epoch"}

\* positions of a run after its optimizer was constructed
AfterBeginRun == pc \in {"loop_init", "train_step", "interval", "validate",
                         "end_epoch", "end_run"}

\* the last save_checkpoint call that wrote path p
WrittenTo(p) == {i \in DOMAIN writes : writes[i].file = p}
LastWrite(p) ==
    writes[CHOOSE i \in WrittenTo(p) : \A j \in WrittenTo(p) : j <= i]

\* C1 as stated: in every run, loaded checkpoint or not, best_acc is 0 when
\* the epoch loop begins, and it never decreases up to the end_run call.
C1_Original ==
    /\ [](pc = "loop_init" => best_acc = 0)
    /\ [][InEpochLoop => best_acc' >= best_acc]_vars

\* C1 amended: when the epoch loop begins best_acc is 0 if load_model
\* restored no checkpoint and the checkpoint's acc if it did; it never
\* decreases from there up to the end_run call.
C1_Amended ==
    /\ [](pc = "loop_init" =>
            best_acc = IF WasLoaded(run_idx) THEN Restored(run_idx).acc ELSE 0)
    /\ [][InEpochLoop => best_acc' >= best_acc]_vars

C1_Witness ==
    /\ pc = "end_run"
    /\ WasLoaded(run_idx)
    /\ acc_at_loop[run_idx] > 0
    /\ best_acc > acc_at_loop[run_idx]

\* C2: a validation accuracy above best_acc becomes best_acc and causes
\* exactly one save_checkpoint storing acc = new best and epoch = E; any
\* other validation accuracy changes neither best_acc nor the files.
C2_ImprovementWrite ==
    [][pc = "validate" /\ epoch + 1 = cfg_epoch =>
         IF val_accuracy' > best_acc
         THEN /\ best_acc' = val_accuracy'
              /\ Len(writes') = Len(writes) + 1
              /\ SubSeq(writes', 1, Len(writes)) = writes
              /\ writes'[Len(writes')].ckpt.acc = val_accuracy'
              /\ writes'[Len(writes')].ckpt.epoch = epoch
              /\ fs' = TorchSave(writes'[Len(writes')].ckpt,
                                 writes'[Len(writes')].file)
         ELSE /\ best_acc' = best_acc
              /\ writes' = writes
              /\ fs' = fs]_vars

C2_Witness ==
    /\ pc = "end_epoch"
    /\ Len(writes) > 0
    /\ writes[Len(writes)].cause = "improve"
    /\ writes[Len(writes)].run = run_idx
    /\ writes[Len(writes)].epoch = epoch
    /\ writes[Len(writes)].ckpt.acc = best_acc
    /\ best_acc = val_accuracy

\* C3 as stated: a completed sweep of N runs called get_model N times, and
\* best_acc was 0 from the end of each run to the first epoch of the next.
C3_Original ==
    pc = "done" =>
        /\ get_model_calls = Len(runs)
        /\ \A i \in 2..Len(runs) : acc_at_loop[i] = 0

\* C3 amended: get_model is called once at the start of each run, N times
\* in a completed sweep; best_acc is 0 from the end of a run until the next
\* run's load_model, which leaves it 0 unless it restores a checkpoint and
\* then sets it to the checkpoint's acc.
C3_Amended ==
    /\ get_model_calls = (IF pc = "run_start" THEN run_idx - 1 ELSE run_idx)
    /\ pc = "run_start" /\ run_idx > 1 => best_acc = 0
    /\ pc = "done" =>
        /\ get_model_calls = Len(runs)
        /\ \A i \in 2..Len(runs) :
             acc_at_loop[i] = IF WasLoaded(i) THEN Restored(i).acc ELSE 0

C3_Witness ==
    /\ pc = "done"
    /\ Len(runs) >= 2
    /\ WasLoaded(2)
    /\ acc_at_loop[2] > 0
    /\ \E i \in DOMAIN writes : writes[i].run = 1 /\ writes[i].cause = "improve"

\* C4: a run whose optimizer kind is neither SGD nor Adam fails at run
\* start: it gets no further than constructing the optimizer, executes no
\* forward pass and no optimizer step, in particular none with an optimizer
\* built for an earlier run's model.
C4_FailsAtRunStart ==
    \A r \in 1..Len(runs) :
        runs[r].optim \notin ValidOptims =>
            /\ r \notin forward
            /\ \A s \in steps : s.run # r
            /\ r = run_idx => pc \in {"run_start", "begin_run", "failed"}

\* C5 as stated: for an SGD or Adam run the optimizer is constructed with
\* run.lr, loaded checkpoint or not.
C5_Original ==
    AfterBeginRun /\ runs[run_idx].optim \in ValidOptims =>
        /\ optimizer.net = run_idx
        /\ optimizer.lr = runs[run_idx].lr

\* C5 amended: for an SGD or Adam run the optimizer is constructed with
\* run.lr when load_model restored no checkpoint, and with the checkpoint's
\* lr when it did.
C5_Amended ==
    AfterBeginRun /\ runs[run_idx].optim \in ValidOptims =>
        /\ optimizer.net = run_idx
        /\ optimizer.lr = IF WasLoaded(run_idx)
                          THEN Restored(run_idx).lr
                          ELSE runs[run_idx].lr

C5_Witness ==
    /\ pc = "train_step"
    /\ runs[run_idx].optim \in ValidOptims
    /\ WasLoaded(run_idx)
    /\ optimizer.net = run_idx
    /\ optimizer.lr # runs[run_idx].lr

\* C6: when the pretrained path names no existing file, load_model raises
\* nothing, returns the freshly built model and leaves start_epoch, best_acc
\* and lr as they were, so the run starts at epoch 0 with run.lr.
C6_MissingFile ==
    [][pc = "run_start" /\ ~IsFile(pretrained) =>
         /\ pc' = "begin_run"
         /\ err' = ""
         /\ net' = [id |-> run_idx, weights |-> 0]
         /\ start_epoch' = start_epoch
         /\ best_acc' = best_acc
         /\ best_acc_ty' = best_acc_ty
         /\ lr' = runs[run_idx].lr
         /\ start_epoch' = 0]_vars

C6_Witness ==
    /\ pc = "begin_run"
    /\ run_idx > 1
    /\ ~IsFile(pretrained)
    /\ ~WasLoaded(run_idx)
    /\ net = [id |-> run_idx, weights |-> 0]
    /\ lr = runs[run_idx].lr

\* C7: load_model on a path last written by save_checkpoint succeeds and
\* restores the saved parameters, start_epoch = saved epoch, best_acc =
\* saved accuracy and lr = saved learning rate.
C7_RoundTrip ==
    [][pc = "run_start" /\ WrittenTo(pretrained) # {} =>
         LET w == LastWrite(pretrained) IN
         /\ pc' = "begin_run"
         /\ net'.weights = w.weights
         /\ start_epoch' = w.ckpt.epoch
         /\ best_acc' = w.ckpt.acc
         /\ lr' = w.ckpt.lr]_vars

\* the fresh single-run, one-epoch SGD sweep of C8, after train() returned
C8_Case ==
    /\ pc = "done"
    /\ Len(runs) = 1
    /\ runs[1].optim = "SGD"
    /\ ~WasLoaded(1)
    /\ cfg_epoch = 1

\* C8 as stated: after such a sweep a checkpoint with stored epoch 0 has
\* been written, for every validation accuracy and save interval.
C8_Original ==
    C8_Case => \E i \in DOMAIN writes : writes[i].ckpt.epoch = 0

\* C8 amended: after such a sweep a checkpoint has been written, with
\* stored epoch 0, exactly when save_interval is 1 or the validation
\* accuracy is above 0; otherwise train() returns without any checkpoint.
C8_Amended ==
    C8_Case =>
        /\ (writes # <<>>) <=> (save_interval = 1 \/ val_accuracy > 0)
        /\ \A i \in DOMAIN writes :
             /\ writes[i].ckpt.epoch = 0
             /\ \E f \in fs : f.path = writes[i].file /\ f.ckpt.epoch = 0

C8_Witness ==
    /\ C8_Case
    /\ save_interval > 1
    /\ val_accuracy > 0
    /\ Len(writes) = 1

\* C9: the epoch and accuracy in the name of every checkpoint file written
\* equal the 'epoch' and 'acc' fields stored in it.
C9_NameMatchesContent ==
    \A i \in DOMAIN writes :
        /\ writes[i].file.epoch = writes[i].ckpt.epoch
        /\ ParseNum(writes[i].file.acc) = writes[i].ckpt.acc

\* the epoch-interval step of the current epoch wrote a checkpoint
IntervalWritten ==
    \E i \in DOMAIN writes :
        /\ writes[i].run = run_idx
        /\ writes[i].epoch = epoch
        /\ writes[i].cause = "interval"

C11_EveryInterval ==
    pc = "validate" => (IntervalWritten <=> (epoch + 1) % save_interval = 0)

\* the epochs run i began, in the order it began them
EpochsOf(i) ==
    SelectSeq(events, LAMBDA ev : ev.kind = "epoch" /\ ev.run = i)

\* C12: load_model on an existing, loadable checkpoint {epoch E, acc A,
\* lr L} sets start_epoch = E, best_acc = A and lr = L; the run's epoch loop
\* then executes E, E+1, ... in increasing order, all of E..total-1 by the
\* time the run reaches end_run, and no epoch at all when E >= total.
C12_Resume ==
    /\ [][pc = "run_start" /\ IsFile(pretrained)
            /\ TorchLoad(pretrained).net_dict.kind = "dict" =>
              /\ pc' = "begin_run"
              /\ start_epoch' = TorchLoad(pretrained).epoch
              /\ best_acc' = TorchLoad(pretrained).acc
              /\ lr' = TorchLoad(pretrained).lr]_vars
    /\ [](Len(loaded) >= run_idx /\ WasLoaded(run_idx) =>
            LET E == Restored(run_idx).epoch
                es == EpochsOf(run_idx)
            IN /\ \A k \in DOMAIN es : es[k].epoch = E + k - 1
               /\ \A k \in DOMAIN es : es[k].epoch < cfg_epoch
               /\ pc \in {"end_run", "save_result", "done"} =>
                    Len(es) = IF E >= cfg_epoch THEN 0 ELSE cfg_epoch - E)

C12_Witness ==
    /\ pc = "end_run"
    /\ run_idx = 2
    /\ WasLoaded(2)
    /\ Restored(2).epoch = 1
    /\ Restored(2).acc = 1
    /\ EpochsOf(2) = <<Event("epoch", 2, 1)>>
    /\ lr # runs[2].lr

\* the validation passes of run i
ValsOf(i) ==
    SelectSeq(events, LAMBDA ev : ev.kind = "val" /\ ev.run = i)

\* C13: the validation pass runs in epoch e exactly when e + 1 is the
\* configured total, so at most once per run and after that epoch's training
\* step; within a run best_acc changes, and an improvement checkpoint is
\* written, only in that final epoch.
C13_FinalEpochOnly ==
    /\ [][pc = "validate" =>
            IF epoch + 1 = cfg_epoch
            THEN events' = Append(events, Event("val", run_idx, epoch))
            ELSE /\ events' = events
                 /\ val_accuracy' = val_accuracy
                 /\ best_acc' = best_acc
                 /\ writes' = writes]_vars
    /\ [][InEpochLoop /\ best_acc' # best_acc =>
            pc = "validate" /\ epoch + 1 = cfg_epoch]_vars
    /\ [](/\ \A i \in 1..Len(runs) : Len(ValsOf(i)) <= 1
          /\ \A k \in DOMAIN events :
               events[k].kind = "val" =>
                 /\ events[k].epoch + 1 = cfg_epoch
                 /\ k > 1
                 /\ events[k - 1] =
                      Event("epoch", events[k].run, events[k].epoch)
          /\ \A i \in DOMAIN writes :
               writes[i].cause = "improve" => writes[i].epoch + 1 = cfg_epoch)

C13_Witness ==
    /\ pc = "end_epoch"
    /\ cfg_epoch = 2
    /\ epoch = 1
    /\ EpochsOf(run_idx) =
         <<Event("epoch", run_idx, 0), Event("epoch", run_idx, 1)>>
    /\ ValsOf(run_idx) = <<Event("val", run_idx, 1)>>
    /\ best_acc > acc_at_loop[run_idx]

\* the Runner calls of epochs e..total-1 of run i
RECURSIVE EpochEvents(_, _)
EpochEvents(i, e) ==
    IF e >= cfg_epoch
    THEN <<>>
    ELSE <<Event("epoch", i, e)>>
         \o (IF e + 1 = cfg_epoch THEN <<Event("val", i, e)>> ELSE <<>>)
         \o EpochEvents(i, e + 1)

\* the Runner calls of the first n runs, each run whole and in sweep order
RECURSIVE SweepEvents(_)
SweepEvents(n) ==
    IF n = 0
    THEN <<>>
    ELSE SweepEvents(n - 1)
         \o <<Event("begin_run", n, 0)>>
         \o EpochEvents(n, IF n \in DOMAIN loaded /\ WasLoaded(n)
                            THEN Restored(n).epoch
                            ELSE 0)
         \o <<Event("end_run", n, 0)>>

\* an upper bound on the steps train() still takes: one for runner.save,
\* 4 per remaining epoch, 4 more per run
Variant ==
    CASE pc \in {"done", "failed"} -> 0
      [] pc = "save_result" -> 1
      [] OTHER ->
           (Len(runs) - run_idx) * (4 * cfg_epoch + 5) + 2 +
           CASE pc = "run_start" -> 4 * cfg_epoch + 4
             [] pc = "begin_run" -> 4 * cfg_epoch + 3
             [] pc = "loop_init" -> 4 * cfg_epoch + 2
             [] pc = "train_step" -> 4 * (cfg_epoch - epoch) + 1
             [] pc = "interval" -> 4 * (cfg_epoch - epoch)
             [] pc = "validate" -> 4 * (cfg_epoch - epoch) - 1
             [] pc = "end_epoch" -> 4 * (cfg_epoch - epoch) - 2
             [] pc = "end_run" -> 1

\* C14: train() terminates (every step lowers a natural-valued bound and
\* only a returned or raised train() has no next step); when nothing raised
\* it has executed every run of the sweep once, whole and in sweep order
\* (begin_run, its epochs, end_run), and then saved the results once, after
\* the last end_run; when a run raised the results are not saved.
C14_SweepThenSave ==
    /\ [][Variant' < Variant]_vars
    /\ [](/\ Variant \in Nat
          /\ pc \notin {"done", "failed"} => ENABLED Next
          /\ result_saved = (IF pc = "done" THEN 1 ELSE 0)
          /\ pc = "done" =>
               events = SweepEvents(Len(runs)) \o <<Event("save", 0, 0)>>
          /\ pc # "done" =>
               LET earlier == SweepEvents(run_idx - 1)
                   n == Len(earlier)
               IN /\ Len(events) >= n
                  /\ SubSeq(events, 1, n) = earlier
                  /\ pc = "run_start" => Len(events) = n
                  /\ \A k \in (n + 1)..Len(events) :
                       events[k].run = run_idx)

C14_Witness ==
    /\ pc = "done"
    /\ Len(runs) = 2
    /\ cfg_epoch = 2
    /\ result_saved = 1
    /\ Len(events) = 11
    /\ events[Len(events) - 1] = Event("end_run", 2, 0)

\* C15: within a run every improvement write goes to one path, and no path
\* written by one run is written again by a later run, so at the end of the
\* sweep every file still holds what the run that wrote it last stored there.
C15_PathsNotReused ==
    \A i, j \in DOMAIN writes :
        i < j =>
          /\ writes[i].run = writes[j].run
               /\ writes[i].cause = "improve" /\ writes[j].cause = "improve"
               => writes[i].file = writes[j].file
          /\ writes[i].run # writes[j].run => writes[i].file # writes[j].file

====
